---------------------------- MODULE Spec2Model ----------------------------
(***************************************************************************)
(* Model of rhythmic_ribbon_mcp/server.py: three module-level tables and   *)
(* eight tools that render them as text.  Texts are TLA+ strings, built    *)
(* character for character as the Python code builds them; a Python dict   *)
(* is a sequence of <<key, value>> pairs in insertion order, and every     *)
(* value carries the type that isinstance() inspects.                      *)
(***************************************************************************)
EXTENDS Integers, Sequences, FiniteSets, TLC

(* ----------------------------------------------------------------------- *)
(* Python values                                                           *)
(* ----------------------------------------------------------------------- *)

\* A str value.
Str(s) == [type |-> "str", val |-> s]

\* A list of str, in source order.
List(xs) == [type |-> "list", val |-> xs]

\* A dict: its items in insertion order.
Dict(items) == [type |-> "dict", val |-> items]

\* isinstance(v, dict) and isinstance(v, list).
IsDict(v) == v.type = "dict"

IsList(v) == v.type = "list"

\* key in d
HasKey(d, key) == \E i \in 1..Len(d.val) : d.val[i][1] = key

\* d[key], for a key d has (the first, and only, item with that key).
Index(d, key) == d.val[CHOOSE i \in 1..Len(d.val) : d.val[i][1] = key][2]

\* d.get(key, default)
Get(d, key, default) == IF HasKey(d, key) THEN Index(d, key) ELSE default

(* ----------------------------------------------------------------------- *)
(* Python string methods, on ASCII text                                    *)
(* ----------------------------------------------------------------------- *)

LowerCase == "abcdefghijklmnopqrstuvwxyz"

UpperCase == "ABCDEFGHIJKLMNOPQRSTUVWXYZ"

CharAt(s, i) == SubSeq(s, i, i)

\* c.upper() and c.lower() of the cased characters.
UpperOf ==
  [c \in {CharAt(LowerCase, i) : i \in 1..Len(LowerCase)} |->
     CharAt(UpperCase, CHOOSE i \in 1..Len(LowerCase) : CharAt(LowerCase, i) = c)]

LowerOf ==
  [c \in {CharAt(UpperCase, i) : i \in 1..Len(UpperCase)} |->
     CharAt(LowerCase, CHOOSE i \in 1..Len(UpperCase) : CharAt(UpperCase, i) = c)]

\* Whether a character is cased: a letter.
IsCased(c) == c \in DOMAIN UpperOf \/ c \in DOMAIN LowerOf

ToUpper(c) == IF c \in DOMAIN UpperOf THEN UpperOf[c] ELSE c

ToLower(c) == IF c \in DOMAIN LowerOf THEN LowerOf[c] ELSE c

\* s.replace(old, new) for a one-character old.
RECURSIVE replace(_, _, _)
replace(s, old, new) ==
  IF Len(s) = 0 THEN ""
  ELSE (IF Head(s) = old THEN new ELSE Head(s)) \o replace(Tail(s), old, new)

\* s.upper()
RECURSIVE upper(_)
upper(s) == IF Len(s) = 0 THEN "" ELSE ToUpper(Head(s)) \o upper(Tail(s))

\* s.title(): a cased character is upper-cased when the character before it
\* is not cased (or there is none) and lower-cased otherwise.
RECURSIVE TitleFrom(_, _)
TitleFrom(s, prevCased) ==
  IF Len(s) = 0 THEN ""
  ELSE (IF prevCased THEN ToLower(Head(s)) ELSE ToUpper(Head(s)))
         \o TitleFrom(Tail(s), IsCased(Head(s)))

title(s) == TitleFrom(s, FALSE)

\* sep.join(parts)
RECURSIVE join(_, _)
join(sep, parts) ==
  IF parts = <<>> THEN ""
  ELSE IF Len(parts) = 1 THEN parts[1]
  ELSE parts[1] \o sep \o join(sep, Tail(parts))

\* repr() of a str without quotes, backslashes or control characters (all
\* strings of the tables are such): the text between single quotes.
ReprStr(s) == "'" \o s \o "'"

RECURSIVE ReprStrs(_)
ReprStrs(xs) ==
  IF xs = <<>> THEN <<>> ELSE <<ReprStr(xs[1])>> \o ReprStrs(Tail(xs))

\* repr() of a value: 'text', ['a', 'b'], {'k': v, ...}.
RECURSIVE repr(_)
RECURSIVE ReprItems(_)
ReprItems(items) ==
  IF items = <<>> THEN <<>>
  ELSE <<ReprStr(items[1][1]) \o ": " \o repr(items[1][2])>> \o ReprItems(Tail(items))

repr(v) ==
  IF v.type = "str" THEN ReprStr(v.val)
  ELSE IF v.type = "list" THEN "[" \o join(", ", ReprStrs(v.val)) \o "]"
  ELSE "{" \o join(", ", ReprItems(v.val)) \o "}"

\* str(v), which an f-string applies to {v}: the text itself for a str, the
\* repr for a list or a dict.
str(v) == IF v.type = "str" THEN v.val ELSE repr(v)

(* ----------------------------------------------------------------------- *)
(* The tables as the module constructs them at load time                   *)
(* ----------------------------------------------------------------------- *)

TaxonomyAtLoad ==
  Dict(<<
    <<"movement_patterns", Dict(<<
      <<"spirals", Dict(<<
        <<"types", List(<<"vertical", "horizontal", "diagonal", "conical">>)>>,
        <<"properties", List(<<"tight", "loose", "uniform", "progressive">>)>>,
        <<"dynamics", List(<<"accelerating", "decelerating", "constant", "pulsing">>)>>,
        <<"technical_notes", Str("Arm must maintain consistent radius; wrist rotation drives spiral formation")>>
      >>)>>,
      <<"circles", Dict(<<
        <<"types", List(<<"full_circles", "half_circles", "figure_8", "infinity">>)>>,
        <<"planes", List(<<"horizontal", "vertical", "diagonal", "tilted">>)>>,
        <<"sizes", List(<<"small", "medium", "large", "giant">>)>>,
        <<"technical_notes", Str("Shoulder stability required; elbow extends for larger circles")>>
      >>)>>,
      <<"snakes", Dict(<<
        <<"types", List(<<"horizontal_snake", "vertical_snake", "diagonal_snake">>)>>,
        <<"wave_properties", List(<<"amplitude", "frequency", "symmetry", "decay">>)>>,
        <<"transitions", List(<<"into_spiral", "into_throw", "into_circle">>)>>,
        <<"technical_notes", Str("Rapid wrist oscillation; arm moves in opposite direction to ribbon")>>
      >>)>>,
      <<"throws", Dict(<<
        <<"types", List(<<"vertical", "boomerang", "stick_throw", "escape">>)>>,
        <<"heights", List(<<"low", "medium", "high", "ceiling">>)>>,
        <<"rotations", List(<<"none", "half_turn", "full_turn", "multiple">>)>>,
        <<"technical_notes", Str("Release point determines trajectory; catch requires visual tracking")>>
      >>)>>,
      <<"wraps", Dict(<<
        <<"types", List(<<"body_wrap", "limb_wrap", "neck_wrap", "waist_wrap">>)>>,
        <<"entry_methods", List(<<"spiral_into", "throw_into", "pass_through">>)>>,
        <<"exit_methods", List(<<"unwrap", "pull_through", "throw_out">>)>>,
        <<"technical_notes", Str("Tension control critical; body position affects wrap geometry")>>
      >>)>>,
      <<"swings", Dict(<<
        <<"types", List(<<"pendulum", "arc", "circular", "elliptical">>)>>,
        <<"amplitudes", List(<<"small", "medium", "large", "full_extension">>)>>,
        <<"rhythms", List(<<"regular", "syncopated", "accelerating", "decelerating">>)>>,
        <<"technical_notes", Str("Momentum management; gravity assists natural motion")>>
      >>)>>
    >>)>>,
    <<"spatial_relationships", Dict(<<
      <<"height_zones", Dict(<<
        <<"floor", Dict(<<
          <<"range", Str("0-50cm")>>,
          <<"techniques", List(<<"floor_rolls", "low_snakes", "ground_spirals">>)>>
        >>)>>,
        <<"low", Dict(<<
          <<"range", Str("50cm-1m")>>,
          <<"techniques", List(<<"low_circles", "leg_passes", "seated_elements">>)>>
        >>)>>,
        <<"mid", Dict(<<
          <<"range", Str("1-1.5m")>>,
          <<"techniques", List(<<"standard_circles", "body_wraps", "horizontal_patterns">>)>>
        >>)>>,
        <<"high", Dict(<<
          <<"range", Str("1.5-2.5m")>>,
          <<"techniques", List(<<"overhead_circles", "vertical_spirals", "high_throws">>)>>
        >>)>>,
        <<"ceiling", Dict(<<
          <<"range", Str("2.5m+")>>,
          <<"techniques", List(<<"maximum_throws", "ceiling_touches", "full_extension">>)>>
        >>)>>
      >>)>>,
      <<"distance_from_body", Dict(<<
        <<"contact", Dict(<<
          <<"range", Str("0-20cm")>>,
          <<"uses", List(<<"wraps", "body_passes", "close_spirals">>)>>
        >>)>>,
        <<"near", Dict(<<
          <<"range", Str("20-100cm")>>,
          <<"uses", List(<<"standard_elements", "medium_circles", "controlled_patterns">>)>>
        >>)>>,
        <<"mid", Dict(<<
          <<"range", Str("1-2m")>>,
          <<"uses", List(<<"extended_circles", "large_spirals", "spatial_fills">>)>>
        >>)>>,
        <<"far", Dict(<<
          <<"range", Str("2-4m")>>,
          <<"uses", List(<<"full_ribbon_extensions", "throws", "maximum_reach">>)>>
        >>)>>,
        <<"extreme", Dict(<<
          <<"range", Str("4m+")>>,
          <<"uses", List(<<"stick_end_releases", "maximum_throws", "aerial_work">>)>>
        >>)>>
      >>)>>,
      <<"planes", Dict(<<
        <<"horizontal", Dict(<<
          <<"orientation", Str("parallel_to_floor")>>,
          <<"elements", List(<<"circles", "snakes", "spirals">>)>>
        >>)>>,
        <<"vertical", Dict(<<
          <<"orientation", Str("perpendicular_to_floor")>>,
          <<"elements", List(<<"vertical_circles", "drops", "rises">>)>>
        >>)>>,
        <<"diagonal", Dict(<<
          <<"orientation", Str("45_degrees")>>,
          <<"elements", List(<<"diagonal_snakes", "tilted_spirals", "angled_throws">>)>>
        >>)>>,
        <<"rotating", Dict(<<
          <<"orientation", Str("changing")>>,
          <<"elements", List(<<"plane_transitions", "3d_spirals", "complex_paths">>)>>
        >>)>>
      >>)>>,
      <<"floor_patterns", Dict(<<
        <<"linear", List(<<"straight_lines", "zigzags", "spiraling_lines">>)>>,
        <<"circular", List(<<"circles", "ellipses", "figure_8s">>)>>,
        <<"geometric", List(<<"triangles", "squares", "star_patterns">>)>>,
        <<"organic", List(<<"curves", "waves", "freeform">>)>>
      >>)>>
    >>)>>,
    <<"temporal_dynamics", Dict(<<
      <<"speed_variations", Dict(<<
        <<"very_slow", Dict(<<
          <<"tempo", Str("largo")>>,
          <<"uses", List(<<"dramatic_holds", "controlled_tension", "lyrical_moments">>)>>
        >>)>>,
        <<"slow", Dict(<<
          <<"tempo", Str("adagio")>>,
          <<"uses", List(<<"graceful_transitions", "flow_emphasis", "aesthetic_shapes">>)>>
        >>)>>,
        <<"moderate", Dict(<<
          <<"tempo", Str("andante")>>,
          <<"uses", List(<<"standard_elements", "balanced_pacing", "technical_precision">>)>>
        >>)>>,
        <<"fast", Dict(<<
          <<"tempo", Str("allegro")>>,
          <<"uses", List(<<"quick_transitions", "rapid_patterns", "energetic_sequences">>)>>
        >>)>>,
        <<"very_fast", Dict(<<
          <<"tempo", Str("presto")>>,
          <<"uses", List(<<"lightning_snakes", "rapid_circles", "virtuosic_displays">>)>>
        >>)>>
      >>)>>,
      <<"rhythmic_patterns", Dict(<<
        <<"regular", Dict(<<
          <<"structure", Str("consistent_beats")>>,
          <<"feel", Str("steady_pulse")>>
        >>)>>,
        <<"syncopated", Dict(<<
          <<"structure", Str("off_beat_accents")>>,
          <<"feel", Str("unexpected_emphasis")>>
        >>)>>,
        <<"polyrhythmic", Dict(<<
          <<"structure", Str("multiple_rhythms")>>,
          <<"feel", Str("complex_layering")>>
        >>)>>,
        <<"rubato", Dict(<<
          <<"structure", Str("flexible_timing")>>,
          <<"feel", Str("expressive_freedom")>>
        >>)>>,
        <<"metric_modulation", Dict(<<
          <<"structure", Str("tempo_shifts")>>,
          <<"feel", Str("dynamic_changes")>>
        >>)>>
      >>)>>,
      <<"acceleration_curves", Dict(<<
        <<"linear", Str("steady_increase")>>,
        <<"exponential", Str("rapid_buildup")>>,
        <<"logarithmic", Str("quick_start_then_slow")>>,
        <<"sigmoid", Str("slow_fast_slow")>>,
        <<"stepped", Str("discrete_speed_changes")>>
      >>)>>,
      <<"transition_timing", Dict(<<
        <<"immediate", Dict(<<
          <<"duration", Str("0-0.5s")>>,
          <<"character", Str("sharp_contrast")>>
        >>)>>,
        <<"quick", Dict(<<
          <<"duration", Str("0.5-1s")>>,
          <<"character", Str("clear_change")>>
        >>)>>,
        <<"moderate", Dict(<<
          <<"duration", Str("1-2s")>>,
          <<"character", Str("smooth_flow")>>
        >>)>>,
        <<"gradual", Dict(<<
          <<"duration", Str("2-4s")>>,
          <<"character", Str("seamless_blend")>>
        >>)>>,
        <<"extended", Dict(<<
          <<"duration", Str("4s+")>>,
          <<"character", Str("dramatic_transformation")>>
        >>)>>
      >>)>>
    >>)>>,
    <<"physical_properties", Dict(<<
      <<"tension_states", Dict(<<
        <<"slack", Dict(<<
          <<"characteristics", List(<<"loose_fabric", "natural_drape", "minimal_control">>)>>
        >>)>>,
        <<"light", Dict(<<
          <<"characteristics", List(<<"gentle_tension", "floating_quality", "subtle_control">>)>>
        >>)>>,
        <<"medium", Dict(<<
          <<"characteristics", List(<<"balanced_tension", "clear_shapes", "standard_control">>)>>
        >>)>>,
        <<"high", Dict(<<
          <<"characteristics", List(<<"taut_fabric", "crisp_lines", "maximum_control">>)>>
        >>)>>,
        <<"variable", Dict(<<
          <<"characteristics", List(<<"changing_tension", "dynamic_shapes", "expressive_control">>)>>
        >>)>>
      >>)>>,
      <<"arc_geometries", Dict(<<
        <<"parabolic", Dict(<<
          <<"physics", Str("natural_throw_trajectory")>>,
          <<"aesthetics", Str("graceful_curves")>>
        >>)>>,
        <<"circular", Dict(<<
          <<"physics", Str("constant_radius")>>,
          <<"aesthetics", Str("perfect_shapes")>>
        >>)>>,
        <<"elliptical", Dict(<<
          <<"physics", Str("dual_focal_points")>>,
          <<"aesthetics", Str("dynamic_ovals")>>
        >>)>>,
        <<"hyperbolic", Dict(<<
          <<"physics", Str("diverging_paths")>>,
          <<"aesthetics", Str("dramatic_spreads")>>
        >>)>>,
        <<"spiral", Dict(<<
          <<"physics", Str("rotating_radius")>>,
          <<"aesthetics", Str("flowing_helixes")>>
        >>)>>
      >>)>>,
      <<"wave_properties", Dict(<<
        <<"amplitude", List(<<"small", "medium", "large", "extreme">>)>>,
        <<"frequency", List(<<"slow", "moderate", "fast", "rapid">>)>>,
        <<"symmetry", List(<<"symmetric", "asymmetric", "progressive", "chaotic">>)>>,
        <<"decay", List(<<"sustained", "gradual", "rapid", "immediate">>)>>
      >>)>>,
      <<"material_behavior", Dict(<<
        <<"flow", Dict(<<
          <<"characteristics", List(<<"smooth_motion", "continuous_fabric", "fluid_paths">>)>>
        >>)>>,
        <<"snap", Dict(<<
          <<"characteristics", List(<<"sharp_movements", "crisp_sounds", "defined_endpoints">>)>>
        >>)>>,
        <<"float", Dict(<<
          <<"characteristics", List(<<"airborne_time", "weightless_feel", "suspended_moments">>)>>
        >>)>>,
        <<"whip", Dict(<<
          <<"characteristics", List(<<"crack_potential", "high_speed", "precision_control">>)>>
        >>)>>
      >>)>>
    >>)>>,
    <<"compositional_structure", Dict(<<
      <<"element_sequences", Dict(<<
        <<"progressive_difficulty", List(<<"simple_to_complex", "technical_buildup", "climactic_peak">>)>>,
        <<"thematic_variation", List(<<"motif_introduction", "development", "recapitulation">>)>>,
        <<"contrasting_sections", List(<<"varied_dynamics", "spatial_contrast", "tempo_shifts">>)>>,
        <<"narrative_arc", List(<<"beginning", "development", "climax", "resolution">>)>>
      >>)>>,
      <<"body_ribbon_coordination", Dict(<<
        <<"synchronous", Dict(<<
          <<"description", Str("body_and_ribbon_move_together")>>,
          <<"effect", Str("unified_motion")>>
        >>)>>,
        <<"complementary", Dict(<<
          <<"description", Str("body_and_ribbon_different_but_related")>>,
          <<"effect", Str("visual_interest")>>
        >>)>>,
        <<"contrasting", Dict(<<
          <<"description", Str("body_and_ribbon_oppose")>>,
          <<"effect", Str("dynamic_tension")>>
        >>)>>,
        <<"independent", Dict(<<
          <<"description", Str("body_and_ribbon_separate")>>,
          <<"effect", Str("complex_layers")>>
        >>)>>
      >>)>>,
      <<"music_synchronization", Dict(<<
        <<"rhythmic_matching", Dict(<<
          <<"precision", Str("hit_specific_beats")>>,
          <<"impact", Str("musical_clarity")>>
        >>)>>,
        <<"phrasing", Dict(<<
          <<"precision", Str("match_musical_phrases")>>,
          <<"impact", Str("artistic_interpretation")>>
        >>)>>,
        <<"dynamic_parallel", Dict(<<
          <<"precision", Str("match_volume_intensity")>>,
          <<"impact", Str("emotional_resonance")>>
        >>)>>,
        <<"structural_alignment", Dict(<<
          <<"precision", Str("match_musical_form")>>,
          <<"impact", Str("choreographic_coherence")>>
        >>)>>
      >>)>>,
      <<"spatial_progression", Dict(<<
        <<"expanding", List(<<"center_to_periphery", "small_to_large", "contained_to_open">>)>>,
        <<"contracting", List(<<"periphery_to_center", "large_to_small", "open_to_contained">>)>>,
        <<"traveling", List(<<"diagonal_crosses", "circular_paths", "linear_trajectories">>)>>,
        <<"stationary", List(<<"fixed_location", "vertical_exploration", "depth_variation">>)>>
      >>)>>
    >>)>>
  >>)

RulesAtLoad ==
  Dict(<<
    <<"technical_requirements", Dict(<<
      <<"code_of_points_2025", Dict(<<
        <<"difficulty_groups", List(<<"Jumps/Leaps", "Balance", "Rotations", "Flexibility">>)>>,
        <<"apparatus_mastery", List(<<"Throws", "Catches", "Manipulation">>)>>,
        <<"risk_elements", List(<<"High_throws", "Complex_catches", "Dynamic_work">>)>>,
        <<"artistic_components", List(<<"Musicality", "Expression", "Character">>)>>
      >>)>>,
      <<"element_combinations", Dict(<<
        <<"valid_sequences", List(<<"throw_rotation_catch", "spiral_throw_spiral", "snake_circle_snake", "wrap_unwrap_throw">>)>>,
        <<"transition_requirements", List(<<"smooth_flow", "logical_progression", "technical_feasibility">>)>>
      >>)>>
    >>)>>,
    <<"aesthetic_principles", Dict(<<
      <<"visual_balance", List(<<"symmetry_asymmetry", "height_variation", "spatial_distribution">>)>>,
      <<"flow_continuity", List(<<"seamless_transitions", "momentum_maintenance", "organic_development">>)>>,
      <<"dynamic_range", List(<<"quiet_moments", "explosive_peaks", "gradual_buildups">>)>>,
      <<"expressive_clarity", List(<<"intentional_movements", "clear_character", "emotional_connection">>)>>
    >>)>>,
    <<"musicality_rules", Dict(<<
      <<"structural_alignment", List(<<"intro_matches_music", "climax_synchronized", "ending_resolution">>)>>,
      <<"rhythmic_precision", List(<<"beat_accuracy", "phrase_matching", "accent_emphasis">>)>>,
      <<"interpretive_freedom", List(<<"rubato_moments", "personal_expression", "artistic_choices">>)>>
    >>)>>
  >>)

StylesAtLoad ==
  Dict(<<
    <<"classical", Dict(<<
      <<"characteristics", List(<<"elegant_lines", "refined_technique", "traditional_beauty">>)>>,
      <<"movement_quality", Str("controlled_grace")>>,
      <<"typical_music", Str("ballet_classical_orchestral")>>
    >>)>>,
    <<"contemporary", Dict(<<
      <<"characteristics", List(<<"innovative_patterns", "unexpected_combinations", "modern_aesthetics">>)>>,
      <<"movement_quality", Str("dynamic_freedom")>>,
      <<"typical_music", Str("electronic_fusion_experimental")>>
    >>)>>,
    <<"dramatic", Dict(<<
      <<"characteristics", List(<<"intense_expression", "theatrical_quality", "emotional_depth">>)>>,
      <<"movement_quality", Str("passionate_power")>>,
      <<"typical_music", Str("cinematic_dramatic_intense")>>
    >>)>>,
    <<"lyrical", Dict(<<
      <<"characteristics", List(<<"flowing_movements", "soft_quality", "poetic_expression">>)>>,
      <<"movement_quality", Str("gentle_fluidity")>>,
      <<"typical_music", Str("melodic_vocal_emotive")>>
    >>)>>,
    <<"technical_virtuosic", Dict(<<
      <<"characteristics", List(<<"high_difficulty", "precision_execution", "mastery_display">>)>>,
      <<"movement_quality", Str("brilliant_control")>>,
      <<"typical_music", Str("fast_complex_rhythmic")>>
    >>)>>
  >>)

(* ----------------------------------------------------------------------- *)
(* State                                                                   *)
(* ----------------------------------------------------------------------- *)

VARIABLES
  RIBBON_TAXONOMY,      \* the module-level table of lines 20-175
  COMPOSITIONAL_RULES,  \* the module-level table of lines 178-207
  STYLE_VARIATIONS,     \* the module-level table of lines 210-236
  call,                 \* the latest completed invocation: tool and arguments
  outcome,              \* "returned" or the exception it raised
  result,               \* the text it returned
  prev,                 \* an earlier completed invocation, kept for comparison
  frames,               \* concurrent invocations in progress: their local variables
  started               \* how many concurrent invocations were begun

tables == <<RIBBON_TAXONOMY, COMPOSITIONAL_RULES, STYLE_VARIATIONS>>

vars == <<RIBBON_TAXONOMY, COMPOSITIONAL_RULES, STYLE_VARIATIONS,
          call, outcome, result, prev, frames, started>>

\* load_taxonomy(): the table itself, not a copy.
load_taxonomy == RIBBON_TAXONOMY

(* ----------------------------------------------------------------------- *)
(* format_taxonomy_section                                                 *)
(* ----------------------------------------------------------------------- *)

\* The inner loop with the list branch only: an item that is no list gets no
\* line.
RECURSIVE InnerLinesListsOnly(_)
InnerLinesListsOnly(items) ==
  IF items = <<>> THEN <<>>
  ELSE LET k == items[1][1]
           v == items[1][2]
       IN  (IF IsList(v) THEN <<"  - " \o k \o ": " \o join(", ", v.val)>> ELSE <<>>)
           \o InnerLinesListsOnly(Tail(items))

\* Lines 254-258: one line per item of a dict found under a key.
RECURSIVE InnerLines(_)
InnerLines(items) ==
  IF items = <<>> THEN <<>>
  ELSE LET k == items[1][1]
           v == items[1][2]
       IN  << IF IsList(v)
              THEN "  - " \o k \o ": " \o join(", ", v.val)
              ELSE "  - " \o k \o ": " \o str(v) >>
           \o InnerLines(Tail(items))

\* Lines 251-262: the lines of the items of one category's dict.
RECURSIVE DetailLines(_)
DetailLines(items) ==
  IF items = <<>> THEN <<>>
  ELSE LET key   == items[1][1]
           value == items[1][2]
       IN  (IF IsDict(value)
            THEN <<"\n**" \o title(replace(key, "_", " ")) \o "**:">>
                   \o InnerLines(value.val)
            ELSE IF IsList(value)
            THEN <<"  - " \o key \o ": " \o join(", ", value.val)>>
            ELSE <<"  - " \o key \o ": " \o str(value)>>)
           \o DetailLines(Tail(items))

\* Lines 249-264: what one iteration of the outer loop appends to lines.
CategoryLines(category, details) ==
  <<"\n### " \o title(replace(category, "_", " "))>>
  \o (IF IsDict(details) THEN DetailLines(details.val)
      ELSE IF IsList(details) THEN <<"  - " \o join(", ", details.val)>>
      ELSE <<>>)

\* The header without the replacement of underscores.
SectionHeaderUnderscored(section_name) ==
  "\n## " \o upper(section_name) \o "\n"

\* Line 246: the first element of lines.
SectionHeader(section_name) ==
  "\n## " \o replace(upper(section_name), "_", " ") \o "\n"

RECURSIVE SectionLines(_)
SectionLines(items) ==
  IF items = <<>> THEN <<>>
  ELSE CategoryLines(items[1][1], items[1][2]) \o SectionLines(Tail(items))

format_taxonomy_section(section_name, data) ==
  join("\n", <<SectionHeader(section_name)>> \o SectionLines(data.val))

(* ----------------------------------------------------------------------- *)
(* ribbon_enhance_prompt                                                   *)
(* ----------------------------------------------------------------------- *)

\* A lookup that falls back to another style than "classical".
StyleRecordOtherDefault(style_preference) ==
  Get(STYLE_VARIATIONS, style_preference, Index(STYLE_VARIATIONS, "contemporary"))

\* Line 294: STYLE_VARIATIONS.get(style_preference, STYLE_VARIATIONS["classical"])
StyleRecord(style_preference) ==
  Get(STYLE_VARIATIONS, style_preference, Index(STYLE_VARIATIONS, "classical"))

\* The head of the report with the description treated like the selectors:
\* its underscores replaced.
EnhanceHeadReplaced(routine_description, style_preference, style) ==
  "# Enhanced Ribbon Routine Description\n"
  \o "\n"
  \o "## Original Concept\n"
  \o replace(routine_description, "_", " ") \o "\n"
  \o "\n"
  \o "## Style Framework: " \o title(replace(style_preference, "_", " ")) \o "\n"
  \o "- Character: " \o join(", ", Index(style, "characteristics").val) \o "\n"
  \o "- Movement Quality: " \o str(Index(style, "movement_quality")) \o "\n"
  \o "- Musical Context: " \o str(Index(style, "typical_music")) \o "\n"
  \o "\n"
  \o "## Technical Vocabulary Enhancement\n"
  \o "\n"
  \o "### Movement Patterns (Layer 1 Deterministic)\n"

\* Lines 296-309: the f-string that starts the report.
EnhanceHead(routine_description, style_preference, style) ==
  "# Enhanced Ribbon Routine Description\n"
  \o "\n"
  \o "## Original Concept\n"
  \o routine_description \o "\n"
  \o "\n"
  \o "## Style Framework: " \o title(replace(style_preference, "_", " ")) \o "\n"
  \o "- Character: " \o join(", ", Index(style, "characteristics").val) \o "\n"
  \o "- Movement Quality: " \o str(Index(style, "movement_quality")) \o "\n"
  \o "- Musical Context: " \o str(Index(style, "typical_music")) \o "\n"
  \o "\n"
  \o "## Technical Vocabulary Enhancement\n"
  \o "\n"
  \o "### Movement Patterns (Layer 1 Deterministic)\n"

\* Lines 313-317: one iteration of the loop over the movement patterns.
PatternBlock(pattern_type, details) ==
  "\n**" \o title(replace(pattern_type, "_", " ")) \o "**\n"
  \o "- Types: " \o join(", ", Index(details, "types").val) \o "\n"
  \o (IF HasKey(details, "properties")
      THEN "- Properties: " \o join(", ", Index(details, "properties").val) \o "\n"
      ELSE "")
  \o "- Technical Note: " \o str(Index(details, "technical_notes")) \o "\n"

RECURSIVE PatternBlocks(_)
PatternBlocks(items) ==
  IF items = <<>> THEN ""
  ELSE PatternBlock(items[1][1], items[1][2]) \o PatternBlocks(Tail(items))

\* Lines 319-330: fixed text.
SpatialTemporalBlock ==
  "\n### Spatial Considerations\n"
  \o "- Height Zones: floor, low, mid, high, ceiling\n"
  \o "- Distance Variations: contact, near, mid, far, extreme\n"
  \o "- Plane Orientations: horizontal, vertical, diagonal, rotating\n"
  \o "\n### Temporal Dynamics\n"
  \o "- Speed Range: very_slow → slow → moderate → fast → very_fast\n"
  \o "- Rhythmic Possibilities: regular, syncopated, polyrhythmic, rubato\n"
  \o "- Transition Timing: immediate, quick, moderate, gradual, extended\n"
  \o "\n## Compositional Structure (Layer 2 Rules)\n"
  \o "\n### Technical Requirements\n"

\* Line 332: the requirement's dict goes through str().
RequirementLine(req_type, details) ==
  "- " \o req_type \o ": " \o str(details) \o "\n"

RECURSIVE RequirementLines(_)
RequirementLines(items) ==
  IF items = <<>> THEN ""
  ELSE RequirementLine(items[1][1], items[1][2]) \o RequirementLines(Tail(items))

\* Line 336
PrincipleLine(principle, elements) ==
  "- " \o title(replace(principle, "_", " ")) \o ": " \o join(", ", elements.val) \o "\n"

RECURSIVE PrincipleLines(_)
PrincipleLines(items) ==
  IF items = <<>> THEN ""
  ELSE PrincipleLine(items[1][1], items[1][2]) \o PrincipleLines(Tail(items))

\* Lines 338-356
EnhanceTail(style_preference, technical_focus, style) ==
  "\n## Expressive Integration (Layer 3 Synthesis)\n"
  \o "\nFor a " \o style_preference \o " interpretation:\n"
  \o "1. Movement Quality: Emphasize " \o str(Index(style, "movement_quality")) \o "\n"
  \o "2. Spatial Focus: Use " \o replace(technical_focus, "_", " ") \o "\n"
  \o "3. Musical Integration: Match " \o str(Index(style, "typical_music")) \o "\n"
  \o "\n## Suggested Development Path\n"
  \o "1. Begin with foundational patterns (circles, spirals, snakes)\n"
  \o "2. Layer in spatial variations (height, distance, planes)\n"
  \o "3. Add temporal dynamics (speed changes, rhythmic variations)\n"
  \o "4. Integrate body-ribbon coordination\n"
  \o "5. Align with musical structure\n"
  \o "6. Polish with style-specific qualities\n"
  \o "\n## Cost Optimization Note\n"
  \o "This enhancement used:\n"
  \o "- Layer 1: Deterministic taxonomy mapping (0 LLM cost)\n"
  \o "- Layer 2: Structured rule application (0 LLM cost)\n"
  \o "- Layer 3: Single synthesis pass (minimal LLM cost)\n"
  \o "- Total savings vs pure LLM: ~60-80%\n"

\* The subscripts of lines 294-342 that raise KeyError when the key is absent.
RECURSIVE PatternsLackKey(_)
PatternsLackKey(items) ==
  /\ items # <<>>
  /\ \/ ~HasKey(items[1][2], "types")
     \/ ~HasKey(items[1][2], "technical_notes")
     \/ PatternsLackKey(Tail(items))

StyleLacksKey(style) ==
  \/ ~HasKey(style, "characteristics")
  \/ ~HasKey(style, "movement_quality")
  \/ ~HasKey(style, "typical_music")

EnhanceRaises(style_preference) ==
  \/ ~HasKey(STYLE_VARIATIONS, "classical")
  \/ StyleLacksKey(StyleRecord(style_preference))
  \/ ~HasKey(load_taxonomy, "movement_patterns")
  \/ PatternsLackKey(Index(load_taxonomy, "movement_patterns").val)
  \/ ~HasKey(COMPOSITIONAL_RULES, "technical_requirements")
  \/ ~HasKey(COMPOSITIONAL_RULES, "aesthetic_principles")

\* Lines 288-358: the text ribbon_enhance_prompt returns.
EnhanceText(routine_description, style_preference, technical_focus) ==
  LET taxonomy == load_taxonomy
      rules    == COMPOSITIONAL_RULES
      style    == StyleRecord(style_preference)
  IN  EnhanceHead(routine_description, style_preference, style)
      \o PatternBlocks(Index(taxonomy, "movement_patterns").val)
      \o SpatialTemporalBlock
      \o RequirementLines(Index(rules, "technical_requirements").val)
      \o "\n### Aesthetic Principles\n"
      \o PrincipleLines(Index(rules, "aesthetic_principles").val)
      \o EnhanceTail(style_preference, technical_focus, style)

(* ----------------------------------------------------------------------- *)
(* The vocabulary tools                                                    *)
(* ----------------------------------------------------------------------- *)

\* Lines 370-371, 383-384, 396-397, 409-410: the four tools differ in the
\* section they pass on.
VocabularyText(section_name) ==
  LET taxonomy == load_taxonomy
  IN  format_taxonomy_section(section_name, Index(taxonomy, section_name))

MovementVocabularyText == VocabularyText("movement_patterns")

SpatialVocabularyText == VocabularyText("spatial_relationships")

TemporalVocabularyText == VocabularyText("temporal_dynamics")

PhysicalPropertiesText == VocabularyText("physical_properties")

(* ----------------------------------------------------------------------- *)
(* ribbon_composition_guide                                                *)
(* ----------------------------------------------------------------------- *)

\* Lines 432-433: the value of an item goes through str().
RECURSIVE GuideItemLines(_)
GuideItemLines(items) ==
  IF items = <<>> THEN ""
  ELSE "  - " \o items[1][1] \o ": " \o str(items[1][2]) \o "\n"
       \o GuideItemLines(Tail(items))

\* Lines 430-435: one key of a rule category.
GuideKeyBlock(key, value) ==
  "\n**" \o title(replace(key, "_", " ")) \o "**:\n"
  \o (IF IsDict(value) THEN GuideItemLines(value.val)
      ELSE IF IsList(value) THEN "  - " \o join(", ", value.val) \o "\n"
      ELSE "")

RECURSIVE GuideKeyBlocks(_)
GuideKeyBlocks(items) ==
  IF items = <<>> THEN ""
  ELSE GuideKeyBlock(items[1][1], items[1][2]) \o GuideKeyBlocks(Tail(items))

\* Lines 428-435: one rule category.
GuideCategoryBlock(rule_category, details) ==
  "\n### " \o title(replace(rule_category, "_", " ")) \o "\n"
  \o GuideKeyBlocks(details.val)

RECURSIVE GuideCategoryBlocks(_)
GuideCategoryBlocks(items) ==
  IF items = <<>> THEN ""
  ELSE GuideCategoryBlock(items[1][1], items[1][2]) \o GuideCategoryBlocks(Tail(items))

\* Lines 422-437
CompositionGuideText ==
  "\n## COMPOSITIONAL STRUCTURE GUIDE\n"
  \o format_taxonomy_section("compositional_structure",
                             Index(RIBBON_TAXONOMY, "compositional_structure"))
  \o "\n\n## COMPOSITIONAL RULES\n"
  \o GuideCategoryBlocks(COMPOSITIONAL_RULES.val)

(* ----------------------------------------------------------------------- *)
(* ribbon_style_variations                                                 *)
(* ----------------------------------------------------------------------- *)

\* The loop over a style's items with the list branch only.
RECURSIVE StyleItemLinesListsOnly(_)
StyleItemLinesListsOnly(items) ==
  IF items = <<>> THEN ""
  ELSE (IF IsList(items[1][2])
        THEN "  - " \o items[1][1] \o ": " \o join(", ", items[1][2].val) \o "\n"
        ELSE "")
       \o StyleItemLinesListsOnly(Tail(items))

\* Lines 453-457
RECURSIVE StyleItemLines(_)
StyleItemLines(items) ==
  IF items = <<>> THEN ""
  ELSE (IF IsList(items[1][2])
        THEN "  - " \o items[1][1] \o ": " \o join(", ", items[1][2].val) \o "\n"
        ELSE "  - " \o items[1][1] \o ": " \o str(items[1][2]) \o "\n")
       \o StyleItemLines(Tail(items))

\* Lines 452-457: one style.
StyleBlock(style_name, details) ==
  "\n### " \o title(replace(style_name, "_", " ")) \o "\n"
  \o StyleItemLines(details.val)

RECURSIVE StyleBlocks(_)
StyleBlocks(items) ==
  IF items = <<>> THEN ""
  ELSE StyleBlock(items[1][1], items[1][2]) \o StyleBlocks(Tail(items))

\* Lines 449-459
StyleVariationsText == "\n## STYLE VARIATIONS\n" \o StyleBlocks(STYLE_VARIATIONS.val)

(* ----------------------------------------------------------------------- *)
(* ribbon_full_taxonomy                                                    *)
(* ----------------------------------------------------------------------- *)

\* Lines 484-485 and 489-490: a header, then str() of the whole entry.
RawBlock(name, details) ==
  "\n### " \o title(replace(name, "_", " ")) \o "\n" \o str(details)

RECURSIVE RawBlocks(_)
RawBlocks(items) ==
  IF items = <<>> THEN ""
  ELSE RawBlock(items[1][1], items[1][2]) \o RawBlocks(Tail(items))

\* Lines 473-474
FullTaxonomyTitle ==
  "# RHYTHMIC RIBBON DANCE VISUAL VOCABULARY\n"
  \o "\n## Complete Taxonomy - All Layers\n"

\* Lines 492-497
FullTaxonomyFooter ==
  "\n\n---\n"
  \o "Three-Layer Architecture:\n"
  \o "- Layer 1: Deterministic taxonomy (movement, spatial, temporal, physical)\n"
  \o "- Layer 2: Compositional rules and technical requirements\n"
  \o "- Layer 3: Style variations and expressive synthesis\n"
  \o "\nCost optimization: ~60-80% savings vs pure LLM approaches\n"

\* The calls of lines 477 and 478 in the other order.
FullTaxonomySectionsSwapped ==
  <<"movement_patterns", "temporal_dynamics", "spatial_relationships",
    "physical_properties", "compositional_structure">>

\* Lines 476-480: the sections in the order of the calls.
FullTaxonomySections ==
  <<"movement_patterns", "spatial_relationships", "temporal_dynamics",
    "physical_properties", "compositional_structure">>

RECURSIVE FormatSections(_, _)
FormatSections(taxonomy, names) ==
  IF names = <<>> THEN ""
  ELSE format_taxonomy_section(names[1], Index(taxonomy, names[1]))
       \o FormatSections(taxonomy, Tail(names))

\* Lines 471-499
FullTaxonomyText ==
  LET taxonomy == load_taxonomy
  IN  FullTaxonomyTitle
      \o FormatSections(taxonomy, FullTaxonomySections)
      \o "\n\n## COMPOSITIONAL RULES (Layer 2)\n"
      \o RawBlocks(COMPOSITIONAL_RULES.val)
      \o "\n\n## STYLE VARIATIONS (Layer 3)\n"
      \o RawBlocks(STYLE_VARIATIONS.val)
      \o FullTaxonomyFooter

(* ----------------------------------------------------------------------- *)
(* Invocations                                                             *)
(* ----------------------------------------------------------------------- *)

\* The workers of the host that run tools at the same time.
Workers == {"w1", "w2"}

\* A frame not in use.
IdleFrame ==
  [tool |-> "none", args |-> <<>>, pc |-> "idle", sec |-> 0, i |-> 0,
   lines |-> <<>>, output |-> "", style |-> Dict(<<>>), overlapped |-> FALSE]

NoCall == [tool |-> "none", args |-> <<>>]

NoPrev == [call |-> NoCall, outcome |-> "none", result |-> ""]

Init ==
  /\ RIBBON_TAXONOMY = TaxonomyAtLoad
  /\ COMPOSITIONAL_RULES = RulesAtLoad
  /\ STYLE_VARIATIONS = StylesAtLoad
  /\ call = NoCall
  /\ outcome = "none"
  /\ result = ""
  /\ prev = NoPrev
  /\ frames = [w \in Workers |-> IdleFrame]
  /\ started = 0

(* The arguments tried.  routine_description is free text, with and without
   line breaks and header-like lines; style_preference holds keys of
   STYLE_VARIATIONS and strings that are not; technical_focus is free text. *)
Descriptions == {"", "low_snakes first\n## Style Framework: Fake"}

StylePreferences == {"classical", "technical_virtuosic", "jazz", ""}

TechnicalFocuses == {"balanced", "spatial_exploration\n## Cost"}

\* d.pop(key, default): the dict without the key.
RECURSIVE WithoutKey(_, _)
WithoutKey(items, key) ==
  IF items = <<>> THEN <<>>
  ELSE (IF items[1][1] = key THEN <<>> ELSE <<items[1]>>) \o WithoutKey(Tail(items), key)

\* A lookup written with pop() instead of get(): it takes the style out of the
\* table.
StylesAfterPop(style_preference) ==
  Dict(WithoutKey(STYLE_VARIATIONS.val, style_preference))

\* A lookup that takes an unrecognized style into the table as a copy of the
\* default (setdefault() instead of get()).
StylesAfterSetDefault(style_preference) ==
  IF HasKey(STYLE_VARIATIONS, style_preference) THEN STYLE_VARIATIONS
  ELSE Dict(STYLE_VARIATIONS.val
            \o <<<<style_preference, Index(STYLE_VARIATIONS, "classical")>>>>)

\* Line 294 reads STYLE_VARIATIONS with get(), which leaves the dict as it is.
StylesAfterLookup(style_preference) == STYLE_VARIATIONS

\* The bookkeeping of a completed invocation: what was called and what came
\* back; prev keeps the invocation completed before it, or what it held.
Completed(tool, args, exception, text) ==
  /\ call' = [tool |-> tool, args |-> args]
  /\ outcome' = exception
  /\ result' = text
  /\ prev' \in {prev, [call |-> call, outcome |-> outcome, result |-> result]}
  /\ UNCHANGED <<frames, started>>

\* Lines 269-358
ribbon_enhance_prompt ==
  \E routine_description \in Descriptions,
     style_preference \in StylePreferences,
     technical_focus \in TechnicalFocuses :
    /\ IF EnhanceRaises(style_preference)
       THEN Completed("ribbon_enhance_prompt",
                      <<routine_description, style_preference, technical_focus>>,
                      "KeyError", "")
       ELSE Completed("ribbon_enhance_prompt",
                      <<routine_description, style_preference, technical_focus>>,
                      "returned",
                      EnhanceText(routine_description, style_preference, technical_focus))
    /\ STYLE_VARIATIONS' = StylesAfterLookup(style_preference)
    /\ UNCHANGED <<RIBBON_TAXONOMY, COMPOSITIONAL_RULES>>

\* Lines 361-371
ribbon_movement_vocabulary ==
  /\ Completed("ribbon_movement_vocabulary", <<>>, "returned", MovementVocabularyText)
  /\ UNCHANGED tables

\* Lines 374-384
ribbon_spatial_vocabulary ==
  /\ Completed("ribbon_spatial_vocabulary", <<>>, "returned", SpatialVocabularyText)
  /\ UNCHANGED tables

\* Lines 387-397
ribbon_temporal_vocabulary ==
  /\ Completed("ribbon_temporal_vocabulary", <<>>, "returned", TemporalVocabularyText)
  /\ UNCHANGED tables

\* Lines 400-410
ribbon_physical_properties ==
  /\ Completed("ribbon_physical_properties", <<>>, "returned", PhysicalPropertiesText)
  /\ UNCHANGED tables

\* Lines 413-437
ribbon_composition_guide ==
  /\ Completed("ribbon_composition_guide", <<>>, "returned", CompositionGuideText)
  /\ UNCHANGED tables

\* Lines 440-459
ribbon_style_variations ==
  /\ Completed("ribbon_style_variations", <<>>, "returned", StyleVariationsText)
  /\ UNCHANGED tables

\* Lines 462-499
ribbon_full_taxonomy ==
  /\ Completed("ribbon_full_taxonomy", <<>>, "returned", FullTaxonomyText)
  /\ UNCHANGED tables

Next ==
  \/ ribbon_enhance_prompt
  \/ ribbon_movement_vocabulary
  \/ ribbon_spatial_vocabulary
  \/ ribbon_temporal_vocabulary
  \/ ribbon_physical_properties
  \/ ribbon_composition_guide
  \/ ribbon_style_variations
  \/ ribbon_full_taxonomy

Spec == Init /\ [][Next]_vars

(* ----------------------------------------------------------------------- *)
(* Concurrent invocations                                                  *)
(*                                                                         *)
(* The host may run several tools at once.  A frame holds the local        *)
(* variables of one invocation in progress; a step is one statement or one *)
(* iteration of a loop of the tool's body, and steps of different frames   *)
(* interleave in any order.                                                *)
(* ----------------------------------------------------------------------- *)

\* Invocations begun in one run of the concurrent specification.
MaxInvocations == 2

\* The arguments ribbon_enhance_prompt is given when run concurrently.
InFlightArguments ==
  {<<"", "jazz", "balanced">>,
   <<"low_snakes first\n## Style Framework: Fake", "technical_virtuosic",
     "spatial_exploration">>}

ZeroArgumentTools ==
  {"ribbon_movement_vocabulary", "ribbon_spatial_vocabulary",
   "ribbon_temporal_vocabulary", "ribbon_physical_properties",
   "ribbon_composition_guide", "ribbon_style_variations", "ribbon_full_taxonomy"}

\* The sections a tool passes to format_taxonomy_section, in the order of
\* its calls (lines 371, 384, 397, 410, 423-424, 476-480).
SectionsOf(tool) ==
  CASE tool = "ribbon_movement_vocabulary" -> <<"movement_patterns">>
    [] tool = "ribbon_spatial_vocabulary"  -> <<"spatial_relationships">>
    [] tool = "ribbon_temporal_vocabulary" -> <<"temporal_dynamics">>
    [] tool = "ribbon_physical_properties" -> <<"physical_properties">>
    [] tool = "ribbon_composition_guide"   -> <<"compositional_structure">>
    [] tool = "ribbon_full_taxonomy"       -> FullTaxonomySections
    [] OTHER -> <<>>

\* Where a tool goes on after its last call of format_taxonomy_section.
AfterSections(tool) ==
  CASE tool = "ribbon_composition_guide" -> "guide_rules_hdr"
    [] tool = "ribbon_full_taxonomy"     -> "full_rules_hdr"
    [] OTHER -> "done"

\* The dict a loop of the tool iterates over at the frame's pc.
LoopItems(f) ==
  CASE f.pc = "fmt_loop"       -> Index(load_taxonomy, SectionsOf(f.tool)[f.sec]).val
    [] f.pc = "guide_rules"    -> COMPOSITIONAL_RULES.val
    [] f.pc = "styles"         -> STYLE_VARIATIONS.val
    [] f.pc = "full_rules"     -> COMPOSITIONAL_RULES.val
    [] f.pc = "full_styles"    -> STYLE_VARIATIONS.val
    [] f.pc = "enh_patterns"   -> Index(load_taxonomy, "movement_patterns").val
    [] f.pc = "enh_reqs"       -> Index(COMPOSITIONAL_RULES, "technical_requirements").val
    [] f.pc = "enh_principles" -> Index(COMPOSITIONAL_RULES, "aesthetic_principles").val
    [] OTHER -> <<>>

\* The statement after the loop at the frame's pc.
LoopExit(f) ==
  CASE f.pc = "fmt_loop"       -> "fmt_join"
    [] f.pc = "guide_rules"    -> "done"
    [] f.pc = "styles"         -> "done"
    [] f.pc = "full_rules"     -> "full_styles_hdr"
    [] f.pc = "full_styles"    -> "full_footer"
    [] f.pc = "enh_patterns"   -> "enh_mid"
    [] f.pc = "enh_reqs"       -> "enh_aes_hdr"
    [] f.pc = "enh_principles" -> "enh_tail"
    [] OTHER -> "done"

IsLoop(pc) ==
  pc \in {"fmt_loop", "guide_rules", "styles", "full_rules", "full_styles",
          "enh_patterns", "enh_reqs", "enh_principles"}

\* The text the statement at the frame's pc appends to the local output (or
\* enhancement) string; "" for a statement that appends none.
Piece(f) ==
  LET item == LoopItems(f)[f.i]
  IN  CASE f.pc = "start" ->
             (CASE f.tool = "ribbon_composition_guide" -> "\n## COMPOSITIONAL STRUCTURE GUIDE\n"
                [] f.tool = "ribbon_style_variations"  -> "\n## STYLE VARIATIONS\n"
                [] f.tool = "ribbon_full_taxonomy"     -> FullTaxonomyTitle
                [] OTHER -> "")
        [] f.pc = "fmt_join"        -> join("\n", f.lines)
        [] f.pc = "guide_rules_hdr" -> "\n\n## COMPOSITIONAL RULES\n"
        [] f.pc = "guide_rules"     -> GuideCategoryBlock(item[1], item[2])
        [] f.pc = "styles"          -> StyleBlock(item[1], item[2])
        [] f.pc = "full_rules_hdr"  -> "\n\n## COMPOSITIONAL RULES (Layer 2)\n"
        [] f.pc = "full_rules"      -> RawBlock(item[1], item[2])
        [] f.pc = "full_styles_hdr" -> "\n\n## STYLE VARIATIONS (Layer 3)\n"
        [] f.pc = "full_styles"     -> RawBlock(item[1], item[2])
        [] f.pc = "full_footer"     -> FullTaxonomyFooter
        [] f.pc = "enh_head"        -> EnhanceHead(f.args[1], f.args[2], f.style)
        [] f.pc = "enh_patterns"    -> PatternBlock(item[1], item[2])
        [] f.pc = "enh_mid"         -> SpatialTemporalBlock
        [] f.pc = "enh_reqs"        -> RequirementLine(item[1], item[2])
        [] f.pc = "enh_aes_hdr"     -> "\n### Aesthetic Principles\n"
        [] f.pc = "enh_principles"  -> PrincipleLine(item[1], item[2])
        [] f.pc = "enh_tail"        -> EnhanceTail(f.args[2], f.args[3], f.style)
        [] OTHER -> ""

\* The lines the statement at the frame's pc leaves in the local list lines of
\* format_taxonomy_section (lines 246, 249-264).
LinesAfter(f) ==
  CASE f.pc = "fmt_begin" -> <<SectionHeader(SectionsOf(f.tool)[f.sec])>>
    [] f.pc = "fmt_loop"  ->
         f.lines \o CategoryLines(LoopItems(f)[f.i][1], LoopItems(f)[f.i][2])
    [] OTHER -> f.lines

\* Entering the loop at pc: its first iteration, or its exit when the dict is
\* empty.
EnterLoop(f, pc) ==
  LET g == [f EXCEPT !.pc = pc, !.i = 1]
  IN  IF LoopItems(g) = <<>> THEN [g EXCEPT !.pc = LoopExit(g)] ELSE g

\* The frame after the statement at its pc, but for output and lines.
Advance(f) ==
  CASE f.pc = "start" ->
         (CASE f.tool = "ribbon_enhance_prompt" ->
                 IF EnhanceRaises(f.args[2])
                 THEN [f EXCEPT !.pc = "raised"]
                 ELSE [f EXCEPT !.pc = "enh_head", !.style = StyleRecord(f.args[2])]
            [] f.tool = "ribbon_style_variations" -> EnterLoop(f, "styles")
            [] OTHER -> [f EXCEPT !.pc = "fmt_begin", !.sec = 1])
    [] f.pc = "fmt_begin" -> EnterLoop(f, "fmt_loop")
    [] IsLoop(f.pc) ->
         IF f.i = Len(LoopItems(f))
         THEN [f EXCEPT !.pc = LoopExit(f)]
         ELSE [f EXCEPT !.i = f.i + 1]
    [] f.pc = "fmt_join" ->
         IF f.sec < Len(SectionsOf(f.tool))
         THEN [f EXCEPT !.pc = "fmt_begin", !.sec = f.sec + 1]
         ELSE [f EXCEPT !.pc = AfterSections(f.tool)]
    [] f.pc = "guide_rules_hdr" -> EnterLoop(f, "guide_rules")
    [] f.pc = "full_rules_hdr"  -> EnterLoop(f, "full_rules")
    [] f.pc = "full_styles_hdr" -> EnterLoop(f, "full_styles")
    [] f.pc = "full_footer"     -> [f EXCEPT !.pc = "done"]
    [] f.pc = "enh_head"        -> EnterLoop(f, "enh_patterns")
    [] f.pc = "enh_mid"         -> EnterLoop(f, "enh_reqs")
    [] f.pc = "enh_aes_hdr"     -> EnterLoop(f, "enh_principles")
    [] f.pc = "enh_tail"        -> [f EXCEPT !.pc = "done"]
    [] OTHER -> f

\* output kept in a variable of the module, which every invocation in progress
\* appends to.
AccumulateShared(w, g, newLines, text) ==
  [v \in Workers |->
     IF v = w THEN [g EXCEPT !.lines = newLines, !.output = @ \o text]
     ELSE IF frames[v].pc \in {"idle", "done", "raised"} THEN frames[v]
     ELSE [frames[v] EXCEPT !.output = @ \o text]]

\* output, enhancement and lines are local variables of the invocation: a
\* statement of worker w changes w's frame and no other.
Accumulate(w, g, newLines, text) ==
  [frames EXCEPT ![w] = [g EXCEPT !.lines = newLines, !.output = @ \o text]]

\* The host calls a tool.
Begin(w) ==
  /\ frames[w].pc = "idle"
  /\ started < MaxInvocations
  /\ started' = started + 1
  /\ \E tool \in ZeroArgumentTools \cup {"ribbon_enhance_prompt"} :
       \E args \in (IF tool = "ribbon_enhance_prompt" THEN InFlightArguments ELSE {<<>>}) :
         frames' = [frames EXCEPT ![w] =
                      [IdleFrame EXCEPT !.tool = tool, !.args = args, !.pc = "start"]]
  /\ UNCHANGED <<tables, call, outcome, result, prev>>

\* Whether some other invocation is between two of its statements.
OthersMidway(w) ==
  \E v \in Workers \ {w} : frames[v].pc \notin {"idle", "start", "done", "raised"}

\* One statement of the invocation of worker w.  overlapped records that a
\* statement of it ran while another invocation was between two of its own.
Step(w) ==
  /\ frames[w].pc \notin {"idle", "done", "raised"}
  /\ frames' = Accumulate(w,
                  [Advance(frames[w]) EXCEPT !.overlapped = @ \/ OthersMidway(w)],
                  LinesAfter(frames[w]), Piece(frames[w]))
  /\ UNCHANGED <<tables, call, outcome, result, prev, started>>

\* The tool returns, or raises, and the frame is gone.
Return(w) ==
  /\ frames[w].pc \in {"done", "raised"}
  /\ frames' = [frames EXCEPT ![w] = IdleFrame]
  /\ UNCHANGED <<tables, call, outcome, result, prev, started>>

NextConcurrent ==
  \/ \E w \in Workers : Begin(w)
  \/ \E w \in Workers : Step(w)
  \/ \E w \in Workers : Return(w)

SpecConcurrent == Init /\ [][NextConcurrent]_vars

(* ----------------------------------------------------------------------- *)
(* Text predicates used by the properties                                  *)
(* ----------------------------------------------------------------------- *)

StartsWith(text, prefix) ==
  /\ Len(prefix) <= Len(text)
  /\ SubSeq(text, 1, Len(prefix)) = prefix

\* Whether sub occurs in text at position i.
OccursAt(text, sub, i) ==
  /\ i >= 1
  /\ i + Len(sub) - 1 <= Len(text)
  /\ SubSeq(text, i, i + Len(sub) - 1) = sub

\* The first position at or after from where sub occurs in text; 0 if none.
FindFrom(text, sub, from) ==
  LET last == Len(text) - Len(sub) + 1
  IN  IF \E i \in from..last : OccursAt(text, sub, i)
      THEN CHOOSE i \in from..last :
             /\ OccursAt(text, sub, i)
             /\ \A j \in from..(i - 1) : ~OccursAt(text, sub, j)
      ELSE 0

Contains(text, sub) == FindFrom(text, sub, 1) > 0

\* Whether the texts of subs occur in text one after the other, without
\* overlap, from position from on.
RECURSIVE InOrderFrom(_, _, _)
InOrderFrom(text, subs, from) ==
  IF subs = <<>> THEN TRUE
  ELSE LET at == FindFrom(text, subs[1], from)
       IN  at > 0 /\ InOrderFrom(text, Tail(subs), at + Len(subs[1]))

InOrder(text, subs) == InOrderFrom(text, subs, 1)

\* text.split("\n")
RECURSIVE LinesFrom(_, _)
LinesFrom(text, from) ==
  LET nl == FindFrom(text, "\n", from)
  IN  IF nl = 0 THEN <<SubSeq(text, from, Len(text))>>
      ELSE <<SubSeq(text, from, nl - 1)>> \o LinesFrom(text, nl + 1)

Lines(text) == LinesFrom(text, 1)

\* The lines of text that start with prefix, in order.
LinesWith(text, prefix) == SelectSeq(Lines(text), LAMBDA l : StartsWith(l, prefix))

\* s.lower()
RECURSIVE lower(_)
lower(s) == IF Len(s) = 0 THEN "" ELSE ToLower(Head(s)) \o lower(Tail(s))

\* The keys of a dict, in source order.
RECURSIVE KeysOf(_)
KeysOf(items) ==
  IF items = <<>> THEN <<>> ELSE <<items[1][1]>> \o KeysOf(Tail(items))

\* A rendered name back as a key: lower case, underscores for spaces.
AsKey(s) == replace(lower(s), " ", "_")

\* The text tool returns for args when it runs alone on the tables as they are.
TextOf(tool, args) ==
  CASE tool = "ribbon_enhance_prompt"      -> EnhanceText(args[1], args[2], args[3])
    [] tool = "ribbon_movement_vocabulary" -> MovementVocabularyText
    [] tool = "ribbon_spatial_vocabulary"  -> SpatialVocabularyText
    [] tool = "ribbon_temporal_vocabulary" -> TemporalVocabularyText
    [] tool = "ribbon_physical_properties" -> PhysicalPropertiesText
    [] tool = "ribbon_composition_guide"   -> CompositionGuideText
    [] tool = "ribbon_style_variations"    -> StyleVariationsText
    [] tool = "ribbon_full_taxonomy"       -> FullTaxonomyText

IsEnhance == call.tool = "ribbon_enhance_prompt"

(* ----------------------------------------------------------------------- *)
(* Properties                                                              *)
(* ----------------------------------------------------------------------- *)

\* C1: whenever ribbon_enhance_prompt has run with a style_preference that is
\* not a key of STYLE_VARIATIONS, the text it returned is the text it returns
\* for "classical" with the same routine_description and technical_focus.
C1_UnknownStyleSameAsClassical ==
  (IsEnhance /\ ~HasKey(STYLE_VARIATIONS, call.args[2]))
    => result = EnhanceText(call.args[1], "classical", call.args[3])

\* The style record C2 expects: the load-time record of the style when the
\* selector is one of the five styles, the load-time record of classical
\* otherwise.
ExpectedStyle(style_preference) ==
  IF style_preference \in {"classical", "contemporary", "dramatic", "lyrical",
                           "technical_virtuosic"}
  THEN Index(StylesAtLoad, style_preference)
  ELSE Index(StylesAtLoad, "classical")

\* C2: every invocation of ribbon_enhance_prompt returns a text and raises
\* nothing, and the characteristics, movement quality and typical music in that
\* text are those of the selected style if the selector is a key of
\* STYLE_VARIATIONS and those of classical otherwise.
C2_NoErrorAndStyleFallback ==
  IsEnhance =>
    LET style == ExpectedStyle(call.args[2])
        mq    == Index(style, "movement_quality").val
        tm    == Index(style, "typical_music").val
    IN  /\ outcome = "returned"
        /\ InOrder(result,
             << "\n- Character: " \o join(", ", Index(style, "characteristics").val) \o "\n"
                  \o "- Movement Quality: " \o mq \o "\n"
                  \o "- Musical Context: " \o tm \o "\n",
                "\n1. Movement Quality: Emphasize " \o mq \o "\n",
                "\n3. Musical Integration: Match " \o tm \o "\n" >>)

\* C2's case: a run with a selector that is no style, and one with a style
\* other than the default.
C2_Witness ==
  /\ IsEnhance /\ call.args[2] = "jazz" /\ outcome = "returned"
  /\ prev.call.tool = "ribbon_enhance_prompt"
  /\ prev.call.args[2] = "technical_virtuosic"

\* The list-valued fields at any depth below a value, in source order.
RECURSIVE ListsIn(_)
RECURSIVE ListsInItems(_)
ListsInItems(items) ==
  IF items = <<>> THEN <<>> ELSE ListsIn(items[1][2]) \o ListsInItems(Tail(items))

ListsIn(v) ==
  IF IsList(v) THEN <<v>>
  ELSE IF IsDict(v) THEN ListsInItems(v.val)
  ELSE <<>>

\* The list-valued fields of the three tables, those nested in
\* technical_requirements and those of the style records among them.
TableLists == ListsIn(TaxonomyAtLoad) \o ListsIn(RulesAtLoad) \o ListsIn(StylesAtLoad)

\* C3: no tool's output shows a list-valued field of the tables as a raw list
\* with brackets and quotes: wherever the output renders such a list, those
\* nested in technical_requirements and those of the style records included,
\* its elements are joined by ", " and nothing else.
C3_ListsAlwaysJoined ==
  (call # NoCall /\ outcome = "returned") =>
    \A n \in 1..Len(TableLists) : ~Contains(result, repr(TableLists[n]))

\* C5: an invocation returns what an earlier invocation of the same tool
\* with the same arguments returned, whatever was invoked in between and
\* before.
C5_Deterministic ==
  (prev.call # NoCall /\ prev.call = call)
    => (prev.outcome = outcome /\ prev.result = result)

\* C5's case: the same call of ribbon_enhance_prompt completed twice.
C5_Witness ==
  /\ IsEnhance /\ prev.call = call /\ outcome = "returned"
  /\ call.args[2] = "technical_virtuosic"

\* C6: after any sequence of invocations each of the three tables is the
\* value the module gave it at load time.
C6_TablesNeverMutated ==
  /\ RIBBON_TAXONOMY = TaxonomyAtLoad
  /\ COMPOSITIONAL_RULES = RulesAtLoad
  /\ STYLE_VARIATIONS = StylesAtLoad

\* C6's case: invocations of a tool that takes the table from load_taxonomy
\* and of the tool that looks a style up have completed.
C6_Witness ==
  /\ IsEnhance /\ call.args[2] = "jazz"
  /\ prev.call.tool = "ribbon_full_taxonomy"

\* C7: under any interleaving of the statements of concurrent invocations, an
\* invocation that has reached its return holds in its local output exactly the
\* text the tool returns when it runs alone.
C7_ConcurrentSameAsAlone ==
  \A w \in Workers :
    frames[w].pc = "done" => frames[w].output = TextOf(frames[w].tool, frames[w].args)

\* C7's case: an invocation reaches its return after its statements and
\* those of another invocation ran in turn (each ran a statement while the
\* other was between two of its own), the other being under way still.
C7_Witness ==
  /\ frames["w1"].pc = "done" /\ frames["w1"].tool = "ribbon_full_taxonomy"
  /\ frames["w2"].pc = "enh_reqs" /\ frames["w2"].tool = "ribbon_enhance_prompt"
  /\ frames["w1"].overlapped /\ frames["w2"].overlapped

\* The fixed text ribbon_enhance_prompt puts before the description.
BeforeDescription == "# Enhanced Ribbon Routine Description\n\n## Original Concept\n"

\* The part of a report after the first n characters.
After(text, n) == SubSeq(text, n + 1, Len(text))

\* C10: the report is the fixed opening up to the "## Original Concept" header,
\* then routine_description character for character, then a line break, an
\* empty line and the "## Style Framework" header; and what follows the
\* description is what follows the empty description in the report for
\* the same style_preference and technical_focus.
C10_DescriptionEmbeddedUnmodified ==
  (IsEnhance /\ outcome = "returned") =>
    LET d    == call.args[1]
        rest == After(result, Len(BeforeDescription) + Len(d))
    IN  /\ StartsWith(result, BeforeDescription \o d \o "\n\n## Style Framework: ")
        /\ rest = After(EnhanceText("", call.args[2], call.args[3]), Len(BeforeDescription))

\* C10's case: a description of two lines, with underscores and a header-like
\* line in it.
C10_Witness ==
  /\ IsEnhance /\ outcome = "returned"
  /\ call.args[1] = "low_snakes first\n## Style Framework: Fake"

VocabularyTools ==
  {"ribbon_movement_vocabulary", "ribbon_spatial_vocabulary",
   "ribbon_temporal_vocabulary", "ribbon_physical_properties"}

\* The section of RIBBON_TAXONOMY a vocabulary tool is about.
SectionOfTool(tool) ==
  CASE tool = "ribbon_movement_vocabulary" -> "movement_patterns"
    [] tool = "ribbon_spatial_vocabulary"  -> "spatial_relationships"
    [] tool = "ribbon_temporal_vocabulary" -> "temporal_dynamics"
    [] tool = "ribbon_physical_properties" -> "physical_properties"

\* The section header C4 expects of a vocabulary tool.
ExpectedSectionHeader(tool) ==
  CASE tool = "ribbon_movement_vocabulary" -> "## MOVEMENT PATTERNS"
    [] tool = "ribbon_spatial_vocabulary"  -> "## SPATIAL RELATIONSHIPS"
    [] tool = "ribbon_temporal_vocabulary" -> "## TEMPORAL DYNAMICS"
    [] tool = "ribbon_physical_properties" -> "## PHYSICAL PROPERTIES"

\* The headers C4 expects, in order, of the tools that are no vocabulary tool.
ExpectedHeaders(tool) ==
  CASE tool = "ribbon_enhance_prompt" ->
         <<"\n## Original Concept\n", "\n## Style Framework",
           "\n## Technical Vocabulary Enhancement\n", "\n## Compositional Structure",
           "\n## Expressive Integration", "\n## Suggested Development Path\n">>
    [] tool = "ribbon_composition_guide" ->
         <<"\n## COMPOSITIONAL STRUCTURE GUIDE\n", "\n## COMPOSITIONAL STRUCTURE\n",
           "\n## COMPOSITIONAL RULES\n">>
    [] tool = "ribbon_style_variations" -> <<"\n## STYLE VARIATIONS\n">>
    [] tool = "ribbon_full_taxonomy" ->
         <<"# RHYTHMIC RIBBON DANCE VISUAL VOCABULARY\n",
           "\n## Complete Taxonomy - All Layers\n", "\n## MOVEMENT PATTERNS\n",
           "\n## SPATIAL RELATIONSHIPS\n", "\n## TEMPORAL DYNAMICS\n",
           "\n## PHYSICAL PROPERTIES\n", "\n## COMPOSITIONAL STRUCTURE\n",
           "\n## COMPOSITIONAL RULES (Layer 2)\n", "\n## STYLE VARIATIONS (Layer 3)\n">>
    [] OTHER -> <<>>

\* C4: every tool returns a non-empty text with its headers in their fixed
\* order.  The text of a vocabulary tool starts with a line break and the
\* "## <SECTION NAME>" header of its section, the section's name in upper case
\* with spaces for underscores; its header lines are that one and then one
\* "### " header per category of the section, in source order.  The text of
\* ribbon_enhance_prompt holds the headers Original Concept, Style Framework,
\* Technical Vocabulary Enhancement, Compositional Structure, Expressive
\* Integration and Suggested Development Path in this order.
C4_NonEmptyWithHeadersInOrder ==
  call # NoCall =>
    /\ outcome = "returned"
    /\ Len(result) > 0
    /\ InOrder(result, ExpectedHeaders(call.tool))
    /\ call.tool \in VocabularyTools =>
         LET headers    == LinesWith(result, "#")
             categories == KeysOf(Index(TaxonomyAtLoad, SectionOfTool(call.tool)).val)
         IN  /\ StartsWith(result, "\n" \o ExpectedSectionHeader(call.tool) \o "\n")
             /\ Len(headers) = Len(categories) + 1
             /\ headers[1] = ExpectedSectionHeader(call.tool)
             /\ \A n \in 1..Len(categories) :
                  /\ StartsWith(headers[n + 1], "### ")
                  /\ AsKey(After(headers[n + 1], Len("### "))) = categories[n]

\* C4's case: a vocabulary tool and ribbon_enhance_prompt have both returned.
C4_Witness ==
  /\ call.tool = "ribbon_spatial_vocabulary" /\ outcome = "returned"
  /\ prev.call.tool = "ribbon_enhance_prompt"
  /\ prev.call.args[1] = "low_snakes first\n## Style Framework: Fake"

\* C8: the text of ribbon_full_taxonomy starts with its title; after the title
\* it holds, each directly after the other, the texts of
\* ribbon_movement_vocabulary, ribbon_spatial_vocabulary,
\* ribbon_temporal_vocabulary and ribbon_physical_properties and the
\* compositional_structure section; what follows has one "### " header per
\* category of COMPOSITIONAL_RULES in source order and then one per style of
\* STYLE_VARIATIONS in source order, and no other.
C8_FullTaxonomyLayersInOrder ==
  call.tool = "ribbon_full_taxonomy" =>
    LET top    == "# RHYTHMIC RIBBON DANCE VISUAL VOCABULARY\n"
        layers == MovementVocabularyText \o SpatialVocabularyText
                    \o TemporalVocabularyText \o PhysicalPropertiesText
                    \o format_taxonomy_section("compositional_structure",
                         Index(RIBBON_TAXONOMY, "compositional_structure"))
        at     == FindFrom(result, MovementVocabularyText, 1)
        rest   == After(result, at + Len(layers) - 1)
        heads  == LinesWith(rest, "### ")
        names  == KeysOf(RulesAtLoad.val) \o KeysOf(StylesAtLoad.val)
    IN  /\ StartsWith(result, top)
        /\ at > Len(top)
        /\ OccursAt(result, layers, at)
        /\ LinesWith(SubSeq(result, 1, at - 1), "### ") = <<>>
        /\ Len(heads) = Len(names)
        /\ \A n \in 1..Len(names) : AsKey(After(heads[n], Len("### "))) = names[n]
        /\ InOrder(rest, <<"\n## COMPOSITIONAL RULES (Layer 2)\n", heads[1]>>)
        /\ InOrder(rest, <<heads[Len(KeysOf(RulesAtLoad.val))],
                           "\n## STYLE VARIATIONS (Layer 3)\n",
                           heads[Len(KeysOf(RulesAtLoad.val)) + 1]>>)

\* C8's case: ribbon_full_taxonomy has returned after a vocabulary tool.
C8_Witness ==
  /\ call.tool = "ribbon_full_taxonomy" /\ outcome = "returned"
  /\ prev.call.tool = "ribbon_temporal_vocabulary"

\* The entries of a dict at every depth, in source order: one per key, with
\* the leaf values found directly under it (the elements of a list, or the
\* one text).
RECURSIVE EntriesOf(_)
EntriesOf(items) ==
  IF items = <<>> THEN <<>>
  ELSE LET k == items[1][1]
           v == items[1][2]
       IN  (IF IsDict(v)
            THEN <<[key |-> k, leaves |-> <<>>]>> \o EntriesOf(v.val)
            ELSE <<[key |-> k, leaves |-> IF IsList(v) THEN v.val ELSE <<v.val>>]>>)
           \o EntriesOf(Tail(items))

\* Whether a line of the output shows an entry: its key (as written, or as a
\* title) and after it its leaf values in order.
EntryShown(line, entry) ==
  LET at == FindFrom(AsKey(line), AsKey(entry.key), 1)
  IN  at > 0 /\ InOrderFrom(line, entry.leaves, at + Len(entry.key))

NonEmptyLines(text) == SelectSeq(Lines(text), LAMBDA l : l # "")

\* C9: after its section header, the text of a vocabulary tool has exactly
\* one line per category, per key and per nested key of its section of
\* RIBBON_TAXONOMY at every depth, in source order, and the line of a key
\* with leaf values shows all of them in source order.
C9_VocabularyComplete ==
  call.tool \in VocabularyTools =>
    LET entries == EntriesOf(Index(TaxonomyAtLoad, SectionOfTool(call.tool)).val)
        shown   == Tail(NonEmptyLines(result))
    IN  /\ Len(shown) = Len(entries)
        /\ \A n \in 1..Len(entries) : EntryShown(shown[n], entries[n])

\* C9's case: the tool of a section with entries at the deepest level (a
\* text and a list under a key of a key of a category) has returned.
C9_Witness ==
  /\ call.tool = "ribbon_spatial_vocabulary" /\ outcome = "returned"
  /\ IsDict(Index(Index(Index(RIBBON_TAXONOMY, "spatial_relationships"),
                         "height_zones"), "floor"))
  /\ prev.call.tool = "ribbon_physical_properties"

\* The styles C11 names, in the order of the source.
SelectableStyles ==
  <<"classical", "contemporary", "dramatic", "lyrical", "technical_virtuosic">>

\* Per style of the load-time table and in its order: the "### " header of
\* the style's name, then its characteristics joined, its movement quality
\* and its typical music.
RECURSIVE ExpectedStyleParts(_)
ExpectedStyleParts(items) ==
  IF items = <<>> THEN <<>>
  ELSE LET style == items[1][2]
       IN  << "\n### " \o title(replace(items[1][1], "_", " ")) \o "\n",
              ": " \o join(", ", Index(style, "characteristics").val) \o "\n",
              ": " \o Index(style, "movement_quality").val \o "\n",
              ": " \o Index(style, "typical_music").val \o "\n" >>
           \o ExpectedStyleParts(Tail(items))

\* Whether a name is among the elements of a sequence.
Among(name, names) == \E n \in 1..Len(names) : names[n] = name

\* C11: the text of ribbon_style_variations has exactly one "### " header per
\* key of STYLE_VARIATIONS, in source order, each followed by that style's
\* characteristics, movement quality and typical music; and the styles it
\* lists (classical, contemporary, dramatic, lyrical, technical_virtuosic)
\* are exactly the selectors for which ribbon_enhance_prompt takes the
\* selector's own record: for every other selector it takes the record of
\* classical.
C11_StyleVariationsListsSelectable ==
  call.tool = "ribbon_style_variations" =>
    LET heads  == LinesWith(result, "### ")
        listed == [n \in 1..Len(heads) |-> AsKey(After(heads[n], Len("### ")))]
    IN  /\ outcome = "returned"
        /\ listed = SelectableStyles
        /\ listed = KeysOf(STYLE_VARIATIONS.val)
        /\ InOrder(result, ExpectedStyleParts(StylesAtLoad.val))
        /\ \A s \in StylePreferences \cup {listed[n] : n \in 1..Len(listed)} :
             /\ Among(s, listed) <=> HasKey(STYLE_VARIATIONS, s)
             /\ StyleRecord(s) = Index(StylesAtLoad,
                                       IF Among(s, listed) THEN s ELSE "classical")

\* C11's case: ribbon_style_variations has returned after a run of
\* ribbon_enhance_prompt that fell back to the default.
C11_Witness ==
  /\ call.tool = "ribbon_style_variations" /\ outcome = "returned"
  /\ prev.call.tool = "ribbon_enhance_prompt"
  /\ prev.call.args[2] = "jazz"

\* The line of the interpretation guidance that shows a technical focus.
SpatialFocusLine(technical_focus) ==
  "2. Spatial Focus: Use " \o replace(technical_focus, "_", " ")

\* How many elements of a sequence satisfy a test.
CountWhere(xs, Test(_)) == Len(SelectSeq(xs, Test))

\* C12: for every description d, style selector s and technical focuses t1
\* and t2, the texts of ribbon_enhance_prompt(d, s, t1) and
\* ribbon_enhance_prompt(d, s, t2) have the same lines except for the single
\* line "2. Spatial Focus: Use ...", which shows the given technical focus
\* with underscores replaced by spaces.
C12_FocusChangesOneLineOnly ==
  (IsEnhance /\ outcome = "returned") =>
    \A t2 \in TechnicalFocuses :
      LET t1    == call.args[3]
          mine  == Lines(result)
          other == Lines(EnhanceText(call.args[1], call.args[2], t2))
      IN  /\ Len(mine) = Len(other)
          /\ CountWhere(mine, LAMBDA l : l = SpatialFocusLine(t1)) = 1
          /\ \A i \in 1..Len(mine) :
               mine[i] # other[i] =>
                 /\ mine[i] = SpatialFocusLine(t1)
                 /\ other[i] = SpatialFocusLine(t2)

\* text.split(sep)
RECURSIVE SplitFrom(_, _, _)
SplitFrom(text, sep, from) ==
  LET at == FindFrom(text, sep, from)
  IN  IF at = 0 THEN <<SubSeq(text, from, Len(text))>>
      ELSE <<SubSeq(text, from, at - 1)>> \o SplitFrom(text, sep, at + Len(sep))

SplitBy(text, sep) == SplitFrom(text, sep, 1)

\* The six summary lines: label, separator of the names, and the section and
\* key of RIBBON_TAXONOMY whose sub-table the line summarises.
SummaryLines ==
  { <<"Height Zones", ", ", "spatial_relationships", "height_zones">>,
    <<"Distance Variations", ", ", "spatial_relationships", "distance_from_body">>,
    <<"Plane Orientations", ", ", "spatial_relationships", "planes">>,
    <<"Speed Range", " → ", "temporal_dynamics", "speed_variations">>,
    <<"Rhythmic Possibilities", ", ", "temporal_dynamics", "rhythmic_patterns">>,
    <<"Transition Timing", ", ", "temporal_dynamics", "transition_timing">> }

\* The text has one line with this label, and the names on it are the keys
\* of the sub-table, all of them and in source order.
SummaryAgrees(text, summary) ==
  LET prefix == "- " \o summary[1] \o ": "
      shown  == LinesWith(text, prefix)
      table  == Index(Index(RIBBON_TAXONOMY, summary[3]), summary[4])
  IN  /\ Len(shown) = 1
      /\ SplitBy(After(shown[1], Len(prefix)), summary[2]) = KeysOf(table.val)

\* C13: each of the six fixed summary lines of ribbon_enhance_prompt (Height
\* Zones, Distance Variations, Plane Orientations, Speed Range, Rhythmic
\* Possibilities, Transition Timing) lists exactly the keys of the
\* corresponding sub-table of RIBBON_TAXONOMY, all of them and in source
\* order.
C13_SummaryLinesAgreeWithTaxonomy ==
  (IsEnhance /\ outcome = "returned") =>
    \A summary \in SummaryLines : SummaryAgrees(result, summary)

=============================================================================
